---- MODULE Spec2Model ----
(***************************************************************************)
(* Order / inventory / notification choreography of the Cloud-Native       *)
(* project.  The inventory service (src/inventory-service/main.py) keeps   *)
(* products_db and applies stock deltas; the order service                 *)
(* (src/order-service/main.py) runs create_order as a sequence of HTTP     *)
(* round trips to the inventory service, persists the order and publishes  *)
(* an order_confirmation on the Redis channel "notifications".             *)
(*                                                                         *)
(* Every inventory handler is an `async def` without an await, so it runs  *)
(* atomically on the service's event loop: one action per handler.         *)
(* create_order awaits every HTTP call, so it is one action per round trip.*)
(* Prices are kept in cents.  The catalogue is cut down to the two         *)
(* products the scenarios of the specification use.                        *)
(***************************************************************************)
EXTENDS Integers, Sequences, FiniteSets, TLC

\* ------------------------------------------------------------------ bounds
NumOrderCalls == 2      \* concurrent POST /orders calls
NumStockCalls == 2      \* concurrent direct PUT /products/{id}/stock calls
MaxItems      == 2      \* line items per order request
MaxLineItems  == 2      \* line items of all order requests together
MaxNotifCalls == 2      \* notification-service calls and foreign channel messages
MaxExternalCalls == 2   \* POST /products, DELETE /products/{id} and direct PUT calls
MaxInitStock  == 3      \* largest starting stock of the ledger-only specification

\* ------------------------------------------------------- program constants
LOW_STOCK_THRESHOLD == 10

ProductIds   == {"prod001", "prod004"}
Users        == {"u1"}
Quantities   == {-1, 1, 2}            \* OrderItem.quantity is an unvalidated int
Deltas       == {-12, -2, -1, 1, 11}  \* UpdateStockRequest.quantity, signed
CreateStocks == {-1, 3}               \* Product.stock is an unvalidated int
CreatePrices == {2000}
CreateNames  == {"Widget"}

OrderCalls == 1..NumOrderCalls
StockCalls == 1..NumStockCalls

\* --------------------------------------------------------------- records
NoProduct == [present |-> FALSE, name |-> "", price |-> 0, stock |-> 0]

Product(name, price, stock) ==
    [present |-> TRUE, name |-> name, price |-> price, stock |-> stock]

\* products_db as the module is loaded
Catalog ==
    [p \in ProductIds |->
        IF p = "prod001" THEN Product("Laptop", 99999, 50)
                         ELSE Product("NoteBook", 1500, 1)]

NoOrder ==
    [present |-> FALSE, user_id |-> "", items |-> <<>>, status |-> "",
     total_amount |-> 0]

OrderItems == [product_id : ProductIds, quantity : Quantities]

RECURSIVE SeqsUpTo(_, _)
SeqsUpTo(S, n) ==
    IF n = 0 THEN {<<>>}
    ELSE LET shorter == SeqsUpTo(S, n - 1)
         IN  shorter \cup {Append(s, x) : s \in {t \in shorter : Len(t) = n - 1}, x \in S}

ItemLists == SeqsUpTo(OrderItems, MaxItems)

VARIABLES
    products_db,    \* inventory service: product id -> product record
    orders_db,      \* order service: order id -> persisted order
    channel,        \* messages published on the Redis channel "notifications"
    ord,            \* one record per POST /orders call: position and locals
    sreq,           \* one record per direct PUT /products/{id}/stock call
    lastUpdate,     \* what the most recent update_stock execution did
    extCalls,       \* number of calls made to the inventory service from outside
    subscribed,     \* notification service: redis_listener has subscribed
    inbox,          \* messages Redis delivered to the subscription, not yet taken
    lost,           \* positions in channel of the messages nobody was subscribed for
    workers,        \* process_notification threads started and not yet finished
    notifications_db, \* the Redis list "notifications_db", head first
    nextId,         \* number of notification ids drawn so far
    dispatched,     \* what redis_listener did with each message it took
    persisted,      \* origin of every notification ever pushed on the list
    lastDelete,     \* what the most recent delete_notification call did
    notifCalls      \* number of calls made to the notification service and raw publishes

bus == <<inbox, lost>>

notifier == <<subscribed, workers, notifications_db, nextId, dispatched, persisted,
              lastDelete, notifCalls>>

vars == <<products_db, orders_db, channel, ord, sreq, lastUpdate, extCalls,
          subscribed, inbox, lost, workers, notifications_db, nextId, dispatched,
          persisted, lastDelete, notifCalls>>

\* ------------------------------------------------------- channel: pieces
\* json.dumps of a dict, and a text that is no JSON document.
json_dumps(d) == [kind |-> "json", value |-> d]

NotJson == [kind |-> "garbage", value |-> [raw |-> "{oops"]]

\* json.loads: the dict, or JSONDecodeError.
json_loads(text) ==
    IF text.kind = "json" THEN [ok |-> TRUE, value |-> text.value]
                          ELSE [ok |-> FALSE, value |-> [raw |-> ""]]

DeliverTwice(box, isSubscribed, entries) ==
    IF isSubscribed THEN box \o entries \o entries ELSE box

DeliverNewestFirst(box, isSubscribed, entries) ==
    IF isSubscribed THEN entries \o box ELSE box

DeliverDurable(box, isSubscribed, entries) == box \o entries

\* Redis PUBLISH: the message goes to the subscriptions open at that moment
\* (pubsub.subscribe, notification service line 232) and is kept nowhere.
Deliver(box, isSubscribed, entries) ==
    IF isSubscribed THEN box \o entries ELSE box

\* redis_client.publish("notifications", json.dumps(m)) for each m of msgs.
PublishAll(msgs) ==
    LET from    == Len(channel)
        entries == [i \in 1..Len(msgs) |->
                       [src |-> from + i, text |-> json_dumps(msgs[i])]]
    IN  /\ channel' = channel \o msgs
        /\ inbox' = Deliver(inbox, subscribed, entries)
        /\ lost' = IF subscribed THEN lost
                                 ELSE lost \cup {from + i : i \in 1..Len(msgs)}

\* ------------------------------------------------ inventory: pure pieces
\* GET /products/{product_id}
get_product(db, p) ==
    IF ~db[p].present THEN [status |-> 404, body |-> NoProduct]
                      ELSE [status |-> 200, body |-> db[p]]

NewStock(stock, quantity) == stock + quantity

InsufficientStockOffByOne(new_stock) == new_stock + 1 < 0

InsufficientStockUnchecked(new_stock) == FALSE

InsufficientStock(new_stock) == new_stock < 0

low_stock_alert(p, name, new_stock) ==
    [type |-> "low_stock_alert", product_id |-> p, product_name |-> name,
     current_stock |-> new_stock]

out_of_stock_alert(p, name) ==
    [type |-> "out_of_stock_alert", product_id |-> p, product_name |-> name]

AlertForStrictThreshold(p, name, new_stock) ==
    IF new_stock < LOW_STOCK_THRESHOLD /\ new_stock > 0
        THEN <<low_stock_alert(p, name, new_stock)>>
    ELSE IF new_stock = 0
        THEN <<out_of_stock_alert(p, name)>>
    ELSE <<>>

\* The alert update_stock builds for a committed stock value: <<>> or one message.
AlertFor(p, name, new_stock) ==
    IF new_stock <= LOW_STOCK_THRESHOLD /\ new_stock > 0
        THEN <<low_stock_alert(p, name, new_stock)>>
    ELSE IF new_stock = 0
        THEN <<out_of_stock_alert(p, name)>>
    ELSE <<>>

\* redis_client.publish inside try/except: the message reaches the channel
\* or the exception is printed and dropped.
Published(msgs, pubOk) == IF pubOk THEN msgs ELSE <<>>

StockStatusPublishRaises(pubOk) == IF pubOk THEN 200 ELSE 500

\* Status of update_stock when the publish of its alert went pubOk.
StockStatusAfterPublish(pubOk) == 200

\* PUT /products/{product_id}/stock with body {quantity}: the whole handler.
update_stock(db, p, quantity, pubOk) ==
    IF ~db[p].present
        THEN [status |-> 404, db |-> db, sent |-> <<>>, alert |-> <<>>, new_stock |-> 0]
    ELSE LET new_stock == NewStock(db[p].stock, quantity) IN
         IF InsufficientStock(new_stock)
            THEN [status |-> 400, db |-> db, sent |-> <<>>, alert |-> <<>>, new_stock |-> 0]
         ELSE LET alert == AlertFor(p, db[p].name, new_stock) IN
              [status    |-> IF alert = <<>> THEN 200 ELSE StockStatusAfterPublish(pubOk),
               db        |-> [db EXCEPT ![p].stock = new_stock],
               sent      |-> Published(alert, pubOk),
               alert     |-> alert,
               new_stock |-> new_stock]

\* The record kept of one update_stock execution.
UpdateRecord(db, p, quantity, pubOk, r) ==
    [product_id |-> p, quantity |-> quantity, pubOk |-> pubOk,
     was_present |-> db[p].present, prev_stock |-> db[p].stock,
     status |-> r.status, response_stock |-> r.new_stock,
     present |-> r.db[p].present, stock |-> r.db[p].stock,
     alert |-> r.alert, sent |-> r.sent]

NoUpdate ==
    [product_id |-> "", quantity |-> 0, pubOk |-> TRUE,
     was_present |-> FALSE, prev_stock |-> 0,
     status |-> 0, response_stock |-> 0,
     present |-> FALSE, stock |-> 0, alert |-> <<>>, sent |-> <<>>]

\* --------------------------------------------------- direct stock clients
IdleStockCall ==
    [st |-> "idle", product_id |-> "", quantity |-> 0, status |-> 0,
     rival |-> FALSE, avail |-> 0]

\* A client sends PUT /products/{p}/stock {quantity: d}; the request is in
\* flight until the inventory service handles it.  rival/avail note that
\* another request on the same product was in flight at the same time, and
\* the stock then.
SubmitStock(c, p, d) ==
    /\ sreq[c].st = "idle"
    /\ \A x \in StockCalls : x < c => sreq[x].st # "idle"
    /\ extCalls < MaxExternalCalls
    /\ extCalls' = extCalls + 1
    /\ LET overlaps(x) == x # c /\ sreq[x].st = "pending" /\ sreq[x].product_id = p
       IN  sreq' = [x \in StockCalls |->
                IF x = c
                    THEN [st |-> "pending", product_id |-> p, quantity |-> d,
                          status |-> 0,
                          rival |-> \E y \in StockCalls : overlaps(y),
                          avail |-> products_db[p].stock]
                ELSE IF overlaps(x)
                    THEN [sreq[x] EXCEPT !.rival = TRUE, !.avail = products_db[p].stock]
                ELSE sreq[x]]
    /\ UNCHANGED <<products_db, orders_db, channel, ord, lastUpdate, bus, notifier>>

\* The inventory service runs update_stock for the request of client c.
HandleStock(c) ==
    /\ sreq[c].st = "pending"
    /\ \E pubOk \in BOOLEAN :
          LET p == sreq[c].product_id
              d == sreq[c].quantity
              r == update_stock(products_db, p, d, pubOk)
          IN  /\ (r.alert = <<>> => pubOk)
              /\ products_db' = r.db
              /\ PublishAll(r.sent)
              /\ lastUpdate' = UpdateRecord(products_db, p, d, pubOk, r)
              /\ sreq' = [sreq EXCEPT ![c].st = "done", ![c].status = r.status]
    /\ UNCHANGED <<orders_db, ord, extCalls, notifier>>

\* ------------------------------------------------------------ admin calls
\* POST /products: 400 when the id exists (no change), else the record is stored.
create_product(p, name, price, stock) ==
    /\ extCalls < MaxExternalCalls
    /\ ~products_db[p].present
    /\ products_db' = [products_db EXCEPT ![p] = Product(name, price, stock)]
    /\ extCalls' = extCalls + 1
    /\ UNCHANGED <<orders_db, channel, ord, sreq, lastUpdate, bus, notifier>>

\* DELETE /products/{product_id}: 404 when absent (no change), else popped.
delete_product(p) ==
    /\ extCalls < MaxExternalCalls
    /\ products_db[p].present
    /\ products_db' = [products_db EXCEPT ![p] = NoProduct]
    /\ extCalls' = extCalls + 1
    /\ UNCHANGED <<orders_db, channel, ord, sreq, lastUpdate, bus, notifier>>

\* --------------------------------------------------- notification service
\* Texts another client of the broker can publish on the channel: no JSON, a
\* tag the dispatcher does not know, a dict without "type", and an
\* order_confirmation without and with total_amount.
RawTexts ==
    {NotJson,
     json_dumps([type |-> "promo", user_id |-> "u1"]),
     json_dumps([user_id |-> "u1"]),
     json_dumps([type |-> "order_confirmation", order_id |-> 7, user_id |-> "u1"]),
     json_dumps([type |-> "order_confirmation", order_id |-> 7, user_id |-> "u1",
                 total_amount |-> 1500])}

TEST_MESSAGE == <<"Test notification">>
TEST_RECIPIENT == "test@example.com"

ADMIN_RECIPIENT == "admin@company.com"

NoNotification ==
    [notification_id |-> 0, type |-> "", message |-> <<>>, recipient |-> "",
     status |-> ""]

NoDelete ==
    [notification_id |-> 0, status |-> 0, before |-> <<>>, after |-> <<>>,
     body |-> NoNotification]

\* Texts are sequences of pieces; numbers are written digit by digit.
DigitChars == <<"0", "1", "2", "3", "4", "5", "6", "7", "8", "9">>

RECURSIVE NatStr(_)
NatStr(n) ==
    IF n < 10 THEN <<DigitChars[n + 1]>>
              ELSE NatStr(n \div 10) \o <<DigitChars[(n % 10) + 1]>>

IntStrUnits(n) == <<DigitChars[(n % 10) + 1]>>

\* str(n) of an int, as an f-string writes it.
IntStr(n) == IF n < 0 THEN <<"-">> \o NatStr(0 - n) ELSE NatStr(n)

Fixed2Whole(cents) == IntStr(cents \div 100) \o <<".", "0", "0">>

\* f"{amount:.2f}" of an amount held in cents.
Fixed2(cents) ==
    LET a == IF cents < 0 THEN 0 - cents ELSE cents
    IN  (IF cents < 0 THEN <<"-">> ELSE <<>>)
        \o NatStr(a \div 100) \o <<".">>
        \o <<DigitChars[((a % 100) \div 10) + 1], DigitChars[(a % 10) + 1]>>

\* f"{d.get(k)}" of a string field: the string, or None.
FieldStr(d, k) == IF k \in DOMAIN d THEN d[k] ELSE "None"

\* f"{d.get(k)}" of an int field.
FieldIntStr(d, k) == IF k \in DOMAIN d THEN IntStr(d[k]) ELSE <<"None">>

create_notification_by_type(id, notification_type, message, recipient) ==
    [notification_id |-> Len(notification_type), type |-> notification_type,
     message |-> message, recipient |-> recipient, status |-> "sent"]

create_notification_to_admin(id, notification_type, message, recipient) ==
    [notification_id |-> id, type |-> notification_type, message |-> message,
     recipient |-> ADMIN_RECIPIENT, status |-> "sent"]

\* Lines 122-132: create_notification with the id drawn for it.
create_notification(id, notification_type, message, recipient) ==
    [notification_id |-> id, type |-> notification_type, message |-> message,
     recipient |-> recipient, status |-> "sent"]

\* Lines 134-139 and json.dumps: the text pushed on the list.
notification_to_text(n) == json_dumps(n)

StoredAnyway(n, storeOk) == <<notification_to_text(n)>>

\* redis_client.lpush inside try/except: pushed, or the error is printed.
Stored(n, storeOk) == IF storeOk THEN <<notification_to_text(n)>> ELSE <<>>

NothingDone == [created |-> FALSE, push |-> <<>>, notification |-> NoNotification]

Done(n, storeOk) == [created |-> TRUE, push |-> Stored(n, storeOk), notification |-> n]

\* Lines 141-224: process_notification for one decoded message, with the id
\* the next create_notification draws.
process_notification(data, id, storeOk) ==
    LET notification_type == FieldStr(data, "type") IN
    IF notification_type = "order_confirmation" THEN
        \* :.2f of a missing total, or a missing recipient, raises: line 223
        IF "total_amount" \notin DOMAIN data \/ "user_id" \notin DOMAIN data
            THEN NothingDone
        ELSE Done(create_notification(id, "order_confirmation",
                      <<"Order ">> \o FieldIntStr(data, "order_id")
                          \o <<" confirmed! Total: $">> \o Fixed2(data.total_amount),
                      data.user_id), storeOk)
    ELSE IF notification_type = "low_stock_alert" THEN
        Done(create_notification(id, "low_stock_alert",
                 <<"Low stock alert: ", FieldStr(data, "product_name"), " (",
                   FieldStr(data, "product_id"), ") - Only ">>
                     \o FieldIntStr(data, "current_stock") \o <<" units remaining">>,
                 ADMIN_RECIPIENT), storeOk)
    ELSE IF notification_type = "out_of_stock_alert" THEN
        Done(create_notification(id, "out_of_stock_alert",
                 <<"Out of stock alert: ", FieldStr(data, "product_name"), " (",
                   FieldStr(data, "product_id"), ") - No units remaining">>,
                 ADMIN_RECIPIENT), storeOk)
    ELSE NothingDone

\* Lines 237-252: what redis_listener does with one message text: a text
\* that is no JSON, or a dict without "type" (KeyError at line 240), is
\* dropped; anything else gets its own thread.
ListenOutcome(text) ==
    LET decoded == json_loads(text) IN
    IF ~decoded.ok THEN "dropped"
    ELSE IF "type" \notin DOMAIN decoded.value THEN "dropped"
    ELSE "spawned"

ListeningAfterCrash(outcome) == outcome # "dropped"

\* Lines 249-252: both except clauses are inside the for loop, so the loop
\* goes on to the next message whatever happened to this one.
ListeningAfter(outcome) == TRUE

rpush_instead(list, entries) == list \o entries

\* Redis LPUSH key value: the new element becomes the head of the list.
lpush(list, entries) == entries \o list

\* json.loads of every element of LRANGE key 0 -1, in the order of the
\* list; an element that is no JSON is skipped.
ParsedNotifications(list) ==
    LET decodable == SelectSeq(list, LAMBDA t : json_loads(t).ok)
    IN  [i \in 1..Len(decodable) |-> json_loads(decodable[i]).value]

\* Lines 84-100: GET /notifications.
get_notifications(list) == ParsedNotifications(list)

\* Lines 298-318: GET /notifications/type/{notification_type}.
get_notifications_by_type(list, notification_type) ==
    SelectSeq(ParsedNotifications(list), LAMBDA n : n.type = notification_type)

\* Lines 262-296: GET /notifications/stats; last_notification is <<>> for
\* None and <<n>> for a notification.
get_notification_stats(list) ==
    LET parsed == ParsedNotifications(list)
        types  == {parsed[i].type : i \in 1..Len(parsed)}
    IN  [total_notifications   |-> Len(parsed),
         notifications_by_type |->
             [t \in types |-> Cardinality({i \in 1..Len(parsed) : parsed[i].type = t})],
         last_notification     |-> IF parsed # <<>> THEN <<parsed[1]>> ELSE <<>>]

\* Redis LREM key 1 value: the list without the first element equal to value.
lpop_instead(list, value) == Tail(list)

lrem(list, value) ==
    IF \A i \in 1..Len(list) : list[i] # value THEN list
    ELSE LET i == CHOOSE k \in 1..Len(list) :
                     list[k] = value /\ \A j \in 1..(k - 1) : list[j] # value
         IN  SubSeq(list, 1, i - 1) \o SubSeq(list, i + 1, Len(list))

\* Lines 339-341: except Exception around the body of delete_notification;
\* an HTTPException raised inside the try is an Exception too.
ExceptException(status) == 500

\* Lines 320-341: DELETE /notifications/{notification_id}, the whole handler.
delete_notification(list, notification_id) ==
    LET hits == {i \in 1..Len(list) :
                    /\ json_loads(list[i]).ok
                    /\ json_loads(list[i]).value.notification_id = notification_id}
    IN  IF hits = {}
            THEN [status |-> ExceptException(404), list |-> list, body |-> NoNotification]
        ELSE LET i == CHOOSE k \in hits : \A j \in hits : k <= j
             IN  [status |-> 200, list |-> lrem(list, list[i]),
                  body |-> json_loads(list[i]).value]

\* ---------------------------------------------------------- order service
IdleOrder ==
    [pc |-> "idle", user_id |-> "", items |-> <<>>, idx |-> 0,
     total_amount |-> 0, status |-> 0, body |-> NoOrder,
     seen |-> <<>>, applied |-> <<>>, puts |-> 0, reserved |-> 0,
     trace |-> <<>>, failedIn |-> "", confirmation |-> "none", neterr |-> FALSE,
     lowDeltas |-> 0]

\* Step 1, lines 93-104: what one availability read decides (0: go on).
CheckOutcome(resp, quantity) ==
    IF resp.status # 200 THEN 400
    ELSE IF resp.body.stock < quantity THEN 400
    ELSE 0

AfterCheckInterleaved(idx, n) == [pc |-> "update", idx |-> idx]

\* Where create_order goes after item idx of n passed the availability check:
\* the first loop runs over all items before the second loop starts.
AfterCheck(idx, n) ==
    IF idx < n THEN [pc |-> "check", idx |-> idx + 1]
               ELSE [pc |-> "update", idx |-> 1]

\* Step 2, line 113: the body of the PUT for one line item.
StockDeltaFor(item) == 0 - item.quantity

UpdateOutcomeClientError(status) == IF status # 200 THEN 400 ELSE 0

UpdateOutcomeIgnored(status) == 0

\* Step 2, lines 115-119: what the PUT's status decides (0: go on).
UpdateOutcome(status) == IF status # 200 THEN 500 ELSE 0

AfterUpdateFirstOnly(idx, n) == [pc |-> "price", idx |-> 1]

\* Where create_order goes after the delta of item idx of n was applied.
AfterUpdate(idx, n) ==
    IF idx < n THEN [pc |-> "update", idx |-> idx + 1]
               ELSE [pc |-> "price", idx |-> 1]

\* Step 3, lines 129-138: what the price read decides (0: go on).
PriceOutcome(resp) == IF resp.status = 200 THEN 0 ELSE 400

ItemTotal(quantity, price) == quantity * price

\* Where create_order goes after the price of item idx of n was read.
AfterPrice(idx, n) ==
    IF idx < n THEN [pc |-> "price", idx |-> idx + 1]
               ELSE [pc |-> "persist", idx |-> 0]

\* except httpx.RequestError, line 142-143
RequestErrorStatus == 503

OrderRecordPending(user_id, items, total_amount) ==
    [present |-> TRUE, user_id |-> user_id, items |-> items,
     status |-> "pending", total_amount |-> total_amount]

\* Lines 146-153: the Order object.
OrderRecord(user_id, items, total_amount) ==
    [present |-> TRUE, user_id |-> user_id, items |-> items,
     status |-> "confirmed", total_amount |-> total_amount]

\* Lines 160-166: the channel message.
order_confirmation(order_id, user_id, total_amount) ==
    [type |-> "order_confirmation", order_id |-> order_id, user_id |-> user_id,
     total_amount |-> total_amount]

StatusConfirmationRaises(pubOk) == IF pubOk THEN 200 ELSE 500

\* Lines 168-177: the status create_order returns after the publish attempt.
StatusAfterConfirmation(pubOk) == 200

\* A raise HTTPException inside create_order: the call ends with `code`.
Failed(r, code, phase) ==
    [r EXCEPT !.pc = "done", !.status = code, !.failedIn = phase]

RequestErrorRetried(r, phase) == [r EXCEPT !.neterr = TRUE]

RequestErrorUncaught(r, phase) ==
    [Failed(r, 500, phase) EXCEPT !.neterr = TRUE]

\* Lines 142-143: httpx.RequestError raised by an awaited call is turned
\* into HTTPException(503).
RequestError(r, phase) ==
    [Failed(r, RequestErrorStatus, phase) EXCEPT !.neterr = TRUE]

Item(o) == ord[o].items[ord[o].idx]

\* Line items of the requests of the calls in S.
RECURSIVE LineItems(_)
LineItems(S) ==
    IF S = {} THEN 0
    ELSE LET o == CHOOSE x \in S : TRUE
         IN  Len(ord[o].items) + LineItems(S \ {o})

\* POST /orders arrives: order_id is drawn (the call's own id stands for the
\* uuid4); with no items both loops and the price loop are empty.
StartOrder(o, u, its) ==
    /\ ord[o].pc = "idle"
    /\ \A x \in OrderCalls : x < o => ord[x].pc # "idle"
    /\ Len(its) + LineItems(OrderCalls) <= MaxLineItems
    /\ ord' = [ord EXCEPT ![o] =
                 [IdleOrder EXCEPT !.pc = IF its = <<>> THEN "persist" ELSE "check",
                                   !.user_id = u, !.items = its,
                                   !.idx = IF its = <<>> THEN 0 ELSE 1]]
    /\ UNCHANGED <<products_db, orders_db, channel, sreq, lastUpdate, extCalls, bus, notifier>>

\* Step 1: one GET /products/{id} of the availability loop.
CheckItem(o) ==
    /\ ord[o].pc = "check"
    /\ \E net \in {"ok", "error"} :
          LET r    == ord[o]
              it   == Item(o)
              resp == get_product(products_db, it.product_id)
              out  == CheckOutcome(resp, it.quantity)
              read == [r EXCEPT !.trace = Append(@, "read")]
              saw  == [read EXCEPT !.seen =
                          Append(@, [status |-> resp.status, stock |-> resp.body.stock])]
              nxt  == AfterCheck(r.idx, Len(r.items))
          IN  ord' = [ord EXCEPT ![o] =
                  IF net = "error" THEN RequestError(read, "check")
                  ELSE IF out # 0 THEN Failed(saw, out, "check")
                  ELSE [saw EXCEPT !.pc = nxt.pc, !.idx = nxt.idx]]
    /\ UNCHANGED <<products_db, orders_db, channel, sreq, lastUpdate, extCalls, bus, notifier>>

\* Step 2: one PUT /products/{id}/stock of the update loop.  A request error
\* is raised either before the inventory service ran the handler or after it
\* (the response is lost).
UpdateItem(o) ==
    /\ ord[o].pc = "update"
    /\ \E net \in {"ok", "request_lost", "response_lost"}, pubOk \in BOOLEAN :
          LET r    == ord[o]
              it   == Item(o)
              d    == StockDeltaFor(it)
              res  == update_stock(products_db, it.product_id, d, pubOk)
              ran  == net # "request_lost"
              took == ran /\ res.status = 200
              out  == UpdateOutcome(res.status)
              put  == [r EXCEPT !.trace = Append(@, "delta"), !.puts = @ + 1,
                                !.applied = IF took
                                    THEN Append(@, [product_id |-> it.product_id,
                                                    quantity |-> d])
                                    ELSE @,
                                !.reserved = IF took
                                    THEN @ + it.quantity * products_db[it.product_id].price
                                    ELSE @,
                                !.lowDeltas = IF took /\ res.new_stock <= LOW_STOCK_THRESHOLD
                                    THEN @ + 1
                                    ELSE @]
              nxt  == AfterUpdate(r.idx, Len(r.items))
          IN  /\ ((~ran \/ res.alert = <<>>) => pubOk)
              /\ products_db' = IF ran THEN res.db ELSE products_db
              /\ PublishAll(IF ran THEN res.sent ELSE <<>>)
              /\ lastUpdate' = IF ran
                    THEN UpdateRecord(products_db, it.product_id, d, pubOk, res)
                    ELSE lastUpdate
              /\ ord' = [ord EXCEPT ![o] =
                    IF net # "ok" THEN RequestError(put, "update")
                    ELSE IF out # 0 THEN Failed(put, out, "update")
                    ELSE [put EXCEPT !.pc = nxt.pc, !.idx = nxt.idx]]
    /\ UNCHANGED <<orders_db, sreq, extCalls, notifier>>

\* Step 3: one GET /products/{id} of the price loop.
PriceItem(o) ==
    /\ ord[o].pc = "price"
    /\ \E net \in {"ok", "error"} :
          LET r    == ord[o]
              it   == Item(o)
              resp == get_product(products_db, it.product_id)
              out  == PriceOutcome(resp)
              read == [r EXCEPT !.trace = Append(@, "price")]
              nxt  == AfterPrice(r.idx, Len(r.items))
          IN  ord' = [ord EXCEPT ![o] =
                  IF net = "error" THEN RequestError(read, "price")
                  ELSE IF out # 0 THEN Failed(read, out, "price")
                  ELSE [read EXCEPT !.pc = nxt.pc, !.idx = nxt.idx,
                                    !.total_amount =
                                        @ + ItemTotal(it.quantity, resp.body.price)]]
    /\ UNCHANGED <<products_db, orders_db, channel, sreq, lastUpdate, extCalls, bus, notifier>>

\* Lines 146-156: orders_db[order_id] = order.dict()
PersistOrder(o) ==
    /\ ord[o].pc = "persist"
    /\ orders_db' = [orders_db EXCEPT ![o] =
            OrderRecord(ord[o].user_id, ord[o].items, ord[o].total_amount)]
    /\ ord' = [ord EXCEPT ![o].pc = "publish", ![o].trace = Append(@, "persist")]
    /\ UNCHANGED <<products_db, channel, sreq, lastUpdate, extCalls, bus, notifier>>

\* Lines 158-177: publish inside try/except, then return the order.
PublishConfirmation(o) ==
    /\ ord[o].pc = "publish"
    /\ \E pubOk \in BOOLEAN :
          LET r   == ord[o]
              msg == order_confirmation(o, r.user_id, r.total_amount)
              st  == StatusAfterConfirmation(pubOk)
          IN  /\ PublishAll(Published(<<msg>>, pubOk))
              /\ ord' = [ord EXCEPT ![o] =
                    [r EXCEPT !.pc = "done", !.status = st,
                              !.trace = Append(@, "publish"),
                              !.confirmation = IF pubOk THEN "sent" ELSE "failed",
                              !.body = IF st = 200
                                  THEN OrderRecord(r.user_id, r.items, r.total_amount)
                                  ELSE NoOrder]]
    /\ UNCHANGED <<products_db, orders_db, sreq, lastUpdate, extCalls, notifier>>

\* ------------------------------------------- notification service, steps
\* Lines 254-260 and 229-234: the startup event starts the listener thread,
\* which subscribes to the channel.
startup_event ==
    /\ ~subscribed
    /\ subscribed' = TRUE
    /\ UNCHANGED <<products_db, orders_db, channel, ord, sreq, lastUpdate, extCalls,
                   inbox, lost, workers, notifications_db, nextId, dispatched,
                   persisted, lastDelete, notifCalls>>

\* Another client of the broker publishes a text on the channel.
RawPublish(text) ==
    /\ notifCalls < MaxNotifCalls
    /\ notifCalls' = notifCalls + 1
    /\ inbox' = Deliver(inbox, subscribed, <<[src |-> 0, text |-> text]>>)
    /\ UNCHANGED <<products_db, orders_db, channel, ord, sreq, lastUpdate, extCalls,
                   subscribed, lost, workers, notifications_db, nextId, dispatched,
                   persisted, lastDelete>>

\* Lines 236-252: one turn of the listener loop on the next message.
redis_listener ==
    /\ subscribed
    /\ inbox # <<>>
    /\ LET m == Head(inbox)
           outcome == ListenOutcome(m.text)
           rx == Len(dispatched) + 1
       IN  /\ inbox' = Tail(inbox)
           /\ dispatched' = Append(dispatched,
                                 [src |-> m.src, text |-> m.text, outcome |-> outcome])
           /\ workers' = IF outcome = "spawned"
                             THEN workers \cup {[rx |-> rx, src |-> m.src,
                                                 data |-> json_loads(m.text).value]}
                             ELSE workers
           /\ subscribed' = ListeningAfter(outcome)
    /\ UNCHANGED <<products_db, orders_db, channel, ord, sreq, lastUpdate, extCalls,
                   lost, notifications_db, nextId, persisted, lastDelete, notifCalls>>

\* Lines 243-247: the thread of one message runs process_notification.
Work(w) ==
    /\ w \in workers
    /\ \E storeOk \in BOOLEAN :
          LET r == process_notification(w.data, nextId + 1, storeOk)
          IN  /\ (~r.created => storeOk)
              /\ nextId' = IF r.created THEN nextId + 1 ELSE nextId
              /\ notifications_db' = lpush(notifications_db, r.push)
              /\ persisted' = persisted \cup
                     {[rx |-> w.rx, src |-> w.src, data |-> w.data,
                       storeOk |-> storeOk, push |-> r.push]}
    /\ workers' = workers \ {w}
    /\ UNCHANGED <<products_db, orders_db, channel, ord, sreq, lastUpdate, extCalls,
                   subscribed, inbox, lost, dispatched, lastDelete, notifCalls>>

\* Lines 102-120: POST /notifications/test.
send_test_notification ==
    /\ notifCalls < MaxNotifCalls
    /\ notifCalls' = notifCalls + 1
    /\ \E storeOk \in BOOLEAN :
          LET n == create_notification(nextId + 1, "test", TEST_MESSAGE, TEST_RECIPIENT)
          IN  notifications_db' = lpush(notifications_db, Stored(n, storeOk))
    /\ nextId' = nextId + 1
    /\ UNCHANGED <<products_db, orders_db, channel, ord, sreq, lastUpdate, extCalls,
                   subscribed, inbox, lost, workers, dispatched, persisted, lastDelete>>

\* DELETE /notifications/{notification_id} as a step; lastDelete keeps the
\* list before and after and the answer, for the properties.
DeleteNotification(id) ==
    /\ notifCalls < MaxNotifCalls
    /\ notifCalls' = notifCalls + 1
    /\ LET r == delete_notification(notifications_db, id)
       IN  /\ notifications_db' = r.list
           /\ lastDelete' = [notification_id |-> id, status |-> r.status,
                             before |-> notifications_db, after |-> r.list,
                             body |-> r.body]
    /\ UNCHANGED <<products_db, orders_db, channel, ord, sreq, lastUpdate, extCalls,
                   subscribed, inbox, lost, workers, nextId, dispatched, persisted>>

\* Lines 343-352: DELETE /notifications.
clear_all_notifications ==
    /\ notifCalls < MaxNotifCalls
    /\ notifCalls' = notifCalls + 1
    /\ notifications_db' = <<>>
    /\ UNCHANGED <<products_db, orders_db, channel, ord, sreq, lastUpdate, extCalls,
                   subscribed, inbox, lost, workers, nextId, dispatched, persisted,
                   lastDelete>>

\* ---------------------------------------------------------- specification
\* The notification service before its startup event.
InitNotifier ==
    /\ subscribed = FALSE
    /\ inbox = <<>>
    /\ lost = {}
    /\ workers = {}
    /\ notifications_db = <<>>
    /\ nextId = 0
    /\ dispatched = <<>>
    /\ persisted = {}
    /\ lastDelete = NoDelete
    /\ notifCalls = 0

Init ==
    /\ products_db = Catalog
    /\ orders_db = [o \in OrderCalls |-> NoOrder]
    /\ channel = <<>>
    /\ ord = [o \in OrderCalls |-> IdleOrder]
    /\ sreq = [c \in StockCalls |-> IdleStockCall]
    /\ lastUpdate = NoUpdate
    /\ extCalls = 0
    /\ InitNotifier

Next ==
    \/ \E o \in OrderCalls, u \in Users, its \in ItemLists : StartOrder(o, u, its)
    \/ \E o \in OrderCalls : CheckItem(o)
    \/ \E o \in OrderCalls : UpdateItem(o)
    \/ \E o \in OrderCalls : PriceItem(o)
    \/ \E o \in OrderCalls : PersistOrder(o)
    \/ \E o \in OrderCalls : PublishConfirmation(o)
    \/ \E p \in ProductIds, n \in CreateNames, pr \in CreatePrices, s \in CreateStocks :
          create_product(p, n, pr, s)
    \/ \E p \in ProductIds : delete_product(p)

Spec == Init /\ [][Next]_vars

\* The stock ledger alone, from any small stock: direct stock calls and
\* product creation and deletion.
StockRange == 0..MaxInitStock

InitLedger ==
    /\ products_db \in {[p \in ProductIds |->
                            [Catalog[p] EXCEPT !.stock = f[p]]] :
                        f \in [ProductIds -> StockRange]}
    /\ orders_db = [o \in OrderCalls |-> NoOrder]
    /\ channel = <<>>
    /\ ord = [o \in OrderCalls |-> IdleOrder]
    /\ sreq = [c \in StockCalls |-> IdleStockCall]
    /\ lastUpdate = NoUpdate
    /\ extCalls = 0
    /\ InitNotifier

NextLedger ==
    \/ \E c \in StockCalls, p \in ProductIds, d \in Deltas : SubmitStock(c, p, d)
    \/ \E c \in StockCalls : HandleStock(c)
    \/ \E p \in ProductIds, n \in CreateNames, pr \in CreatePrices, s \in CreateStocks :
          create_product(p, n, pr, s)
    \/ \E p \in ProductIds : delete_product(p)

SpecLedger == InitLedger /\ [][NextLedger]_vars

\* The notification pipeline: stock calls publish alerts, the notification
\* service starts, listens, dispatches, and serves its own endpoints.
NotificationIds == 0..3

NextNotify ==
    \/ \E c \in StockCalls, p \in ProductIds, d \in Deltas : SubmitStock(c, p, d)
    \/ \E c \in StockCalls : HandleStock(c)
    \/ startup_event
    \/ \E text \in RawTexts : RawPublish(text)
    \/ redis_listener
    \/ \E w \in workers : Work(w)
    \/ send_test_notification
    \/ \E id \in NotificationIds : DeleteNotification(id)
    \/ clear_all_notifications

SpecNotify == Init /\ [][NextNotify]_vars

\* An order from the request to the stored notification: the create_order
\* calls, the startup of the notification service, its listener and its
\* threads.  The listener thread and the message threads are scheduled by
\* the interpreter and each of them gets to run; a create_order call
\* resumes when its awaited response arrives.
NextFlow ==
    \/ \E o \in OrderCalls, u \in Users, its \in ItemLists : StartOrder(o, u, its)
    \/ \E o \in OrderCalls : CheckItem(o)
    \/ \E o \in OrderCalls : UpdateItem(o)
    \/ \E o \in OrderCalls : PriceItem(o)
    \/ \E o \in OrderCalls : PersistOrder(o)
    \/ \E o \in OrderCalls : PublishConfirmation(o)
    \/ startup_event
    \/ redis_listener
    \/ \E w \in workers : Work(w)

FairFlow ==
    /\ WF_vars(redis_listener)
    /\ WF_vars(\E w \in workers : Work(w))
    /\ \A o \in OrderCalls :
          WF_vars(CheckItem(o) \/ UpdateItem(o) \/ PriceItem(o)
                      \/ PersistOrder(o) \/ PublishConfirmation(o))

SpecFlow == Init /\ [][NextFlow]_vars /\ FairFlow

\* ================================================================ claims
\* ------------------------------------------------------------ stock ledger
\* An update_stock execution on a product that exists.
Ran == lastUpdate.status # 0 /\ lastUpdate.was_present

\* C1: update_stock never commits a stock below 0.  A delta with
\* stock + delta < 0 is answered 400, leaves the product's stock as it was
\* and publishes no alert; any other delta is answered 200 and the stock
\* becomes exactly stock + delta.
C1_NoNegativeCommit ==
    Ran =>
        IF lastUpdate.prev_stock + lastUpdate.quantity < 0
            THEN /\ lastUpdate.status = 400
                 /\ lastUpdate.present
                 /\ lastUpdate.stock = lastUpdate.prev_stock
                 /\ lastUpdate.alert = <<>>
                 /\ lastUpdate.sent = <<>>
            ELSE /\ lastUpdate.status = 200
                 /\ lastUpdate.stock = lastUpdate.prev_stock + lastUpdate.quantity
                 /\ lastUpdate.stock >= 0

\* A delta that would leave -1 was rejected and the stock is what it was.
C1_Witness ==
    /\ Ran
    /\ lastUpdate.prev_stock + lastUpdate.quantity = 0 - 1
    /\ lastUpdate.status = 400
    /\ products_db[lastUpdate.product_id].stock = lastUpdate.prev_stock

\* Two direct calls on one product that were in flight together, both
\* answered, and nothing else was sent to the inventory service.
ConcurrentPair(a, b) ==
    /\ a # b
    /\ sreq[a].st = "done" /\ sreq[b].st = "done"
    /\ sreq[a].rival /\ sreq[b].rival
    /\ sreq[a].product_id = sreq[b].product_id
    /\ extCalls = 2
    /\ \A x \in StockCalls \ {a, b} : sreq[x].st = "idle"

Magnitude(d) == IF d < 0 THEN 0 - d ELSE d

Exceeds(a, b) == Magnitude(sreq[a].quantity) + Magnitude(sreq[b].quantity) > sreq[a].avail

ExactlyOneSucceeds(a, b) ==
    \/ sreq[a].status = 200 /\ sreq[b].status = 400
    \/ sreq[a].status = 400 /\ sreq[b].status = 200

\* C2 as stated: two concurrent deltas whose combined magnitude exceeds the
\* available stock end with exactly one success and one rejection.
C2_ExactlyOne ==
    \A a, b \in StockCalls :
        ConcurrentPair(a, b) /\ Exceeds(a, b) => ExactlyOneSucceeds(a, b)

\* C2, amended: two concurrent reservations (negative deltas) whose combined
\* magnitude exceeds the available stock never both succeed; exactly one
\* succeeds and the other is rejected with 400 when at least one of them
\* fits the stock on its own, and both are rejected with 400 when neither does.
C2_NeverBoth ==
    \A a, b \in StockCalls :
        (/\ ConcurrentPair(a, b)
         /\ Exceeds(a, b)
         /\ sreq[a].quantity < 0 /\ sreq[b].quantity < 0)
        => /\ ~(sreq[a].status = 200 /\ sreq[b].status = 200)
           /\ IF \/ Magnitude(sreq[a].quantity) <= sreq[a].avail
                 \/ Magnitude(sreq[b].quantity) <= sreq[a].avail
                 THEN ExactlyOneSucceeds(a, b)
                 ELSE sreq[a].status = 400 /\ sreq[b].status = 400

\* Two reservations that each fit the stock but not together: one won.
C2_Witness ==
    \E a, b \in StockCalls :
        /\ ConcurrentPair(a, b)
        /\ Exceeds(a, b)
        /\ sreq[a].quantity < 0 /\ sreq[b].quantity < 0
        /\ Magnitude(sreq[a].quantity) <= sreq[a].avail
        /\ Magnitude(sreq[b].quantity) <= sreq[a].avail
        /\ sreq[a].status = 200 /\ sreq[b].status = 400

\* The alert class of a stock value, as the specification words it.
AlertClass(stock) ==
    IF stock = 0 THEN "out_of_stock_alert"
    ELSE IF 0 < stock /\ stock <= 10 THEN "low_stock_alert"
    ELSE "none"

\* C7: after a successful delta the alert update_stock emits is none, one
\* low_stock_alert or one out_of_stock_alert, chosen by the committed stock
\* alone (low iff 0 < stock <= 10, out iff stock = 0, none iff stock > 10),
\* whatever the previous stock and the sign of the delta; the channel gets
\* that alert, once, when the publish goes through and nothing otherwise.
C7_AlertByNewStock ==
    (Ran /\ lastUpdate.status = 200) =>
        /\ Len(lastUpdate.alert) <= 1
        /\ (AlertClass(lastUpdate.stock) = "none") = (lastUpdate.alert = <<>>)
        /\ \A i \in 1..Len(lastUpdate.alert) :
              /\ lastUpdate.alert[i].type = AlertClass(lastUpdate.stock)
              /\ lastUpdate.alert[i].product_id = lastUpdate.product_id
        /\ lastUpdate.sent = IF lastUpdate.pubOk THEN lastUpdate.alert ELSE <<>>

\* A replenishment (positive delta) of a product that was out of stock
\* published a low_stock_alert.
C7_Witness ==
    /\ Ran /\ lastUpdate.status = 200
    /\ lastUpdate.quantity > 0
    /\ lastUpdate.prev_stock = 0
    /\ Len(lastUpdate.sent) = 1
    /\ lastUpdate.sent[1].type = "low_stock_alert"
    /\ Len(channel) > 0
    /\ channel[Len(channel)] = lastUpdate.sent[1]

\* C10: when the publish of a low_stock_alert or out_of_stock_alert fails,
\* update_stock still answers 200 with the updated stock, and the new stock
\* is committed.
C10_PublishFailureSwallowed ==
    (Ran /\ ~lastUpdate.pubOk) =>
        /\ lastUpdate.status = 200
        /\ lastUpdate.stock = lastUpdate.prev_stock + lastUpdate.quantity
        /\ lastUpdate.response_stock = lastUpdate.stock
        /\ lastUpdate.sent = <<>>
        /\ lastUpdate.alert # <<>>

\* The publish of an out_of_stock_alert failed and the stock is 0.
C10_Witness ==
    /\ Ran /\ ~lastUpdate.pubOk
    /\ lastUpdate.status = 200
    /\ lastUpdate.prev_stock > 0
    /\ products_db[lastUpdate.product_id].stock = 0
    /\ channel = <<>>

\* ------------------------------------------------------------ create_order
\* The availability read of item i of call o found the product missing or
\* less stock than the item asks for.
Offending(o, i) ==
    \/ ord[o].seen[i].status # 200
    \/ ord[o].seen[i].stock < ord[o].items[i].quantity

\* Every line item of call o was read and passed both checks.
AllPassed(o) ==
    /\ Len(ord[o].seen) = Len(ord[o].items)
    /\ \A i \in 1..Len(ord[o].seen) : ~Offending(o, i)

\* The delta create_order sends for item i of call o.
DeltaOf(o, i) ==
    [product_id |-> ord[o].items[i].product_id,
     quantity |-> 0 - ord[o].items[i].quantity]

Confirmations(o) ==
    {i \in 1..Len(channel) :
        channel[i].type = "order_confirmation" /\ channel[i].order_id = o}

\* C3: create_order sends no stock delta before every line item passed the
\* existence check and the stock >= quantity check; when the availability
\* read of any item, at any position, finds the product missing or too
\* little stock, the call ends with 400 and has sent no stock delta.
C3_CheckBeforeMutate ==
    \A o \in OrderCalls :
        /\ ord[o].puts > 0 => AllPassed(o)
        /\ (\E i \in 1..Len(ord[o].seen) : Offending(o, i)) =>
              /\ ord[o].pc = "done"
              /\ ord[o].status = 400
              /\ ord[o].puts = 0
              /\ ord[o].applied = <<>>
              /\ ~orders_db[o].present

\* The second of two items asked for more than the stock read: 400, no
\* delta sent, the stock of the first item's product untouched.
C3_Witness ==
    \E o \in OrderCalls :
        /\ Len(ord[o].items) = 2
        /\ Len(ord[o].seen) = 2
        /\ ~Offending(o, 1)
        /\ ord[o].seen[2].status = 200
        /\ Offending(o, 2)
        /\ ord[o].status = 400
        /\ ord[o].puts = 0
        /\ products_db = Catalog

\* C4: when the delta of the k-th line item fails after the deltas of items
\* 1..k-1 were applied, those deltas stay applied (create_order has sent
\* exactly k PUTs, each -quantity, and none to compensate), the order is
\* not persisted, no order_confirmation is published, and the call ends
\* with 500 or 503.
C4_NoRollback ==
    \A o \in OrderCalls :
        ord[o].failedIn = "update" =>
            /\ ord[o].pc = "done"
            /\ ord[o].status \in {500, 503}
            /\ ord[o].puts = ord[o].idx
            /\ Len(ord[o].applied) >= ord[o].idx - 1
            /\ \A i \in 1..Len(ord[o].applied) : ord[o].applied[i] = DeltaOf(o, i)
            /\ ~orders_db[o].present
            /\ ord[o].confirmation = "none"
            /\ Confirmations(o) = {}

\* The second delta was rejected after the first was applied: 500, and the
\* first product's stock is still the decremented one.
C4_Witness ==
    \E o \in OrderCalls :
        /\ ord[o].failedIn = "update"
        /\ ord[o].status = 500
        /\ ord[o].idx = 2
        /\ ord[o].applied = <<DeltaOf(o, 1)>>
        /\ ord[o].items[1].quantity > 0
        /\ products_db[ord[o].items[1].product_id].stock =
              Catalog[ord[o].items[1].product_id].stock - ord[o].items[1].quantity

\* C5: a create_order call whose availability check passed can still have a
\* delta rejected by the ledger (another call took the stock in between);
\* then that order is not persisted and the call ends with 500 or 503, and
\* no delta the ledger commits leaves a stock below 0.
C5_DeltaIsAuthoritative ==
    /\ \A o \in OrderCalls :
          ord[o].puts > Len(ord[o].applied) =>
              /\ AllPassed(o)
              /\ ord[o].pc = "done"
              /\ ord[o].status \in {500, 503}
              /\ ~orders_db[o].present
    /\ (Ran /\ lastUpdate.status = 200) => lastUpdate.stock >= 0

\* Two calls read the same stock of the same product, both passed, their
\* quantities together exceed it: one delta applied, the other rejected.
C5_Witness ==
    \E a, b \in OrderCalls :
        /\ a # b
        /\ Len(ord[a].items) = 1 /\ Len(ord[b].items) = 1
        /\ ord[a].items[1].product_id = ord[b].items[1].product_id
        /\ AllPassed(a) /\ AllPassed(b)
        /\ ord[a].seen[1].stock = ord[b].seen[1].stock
        /\ ord[a].items[1].quantity > 0 /\ ord[b].items[1].quantity > 0
        /\ ord[a].items[1].quantity + ord[b].items[1].quantity > ord[a].seen[1].stock
        /\ Len(ord[a].applied) = 1
        /\ ord[b].failedIn = "update" /\ ord[b].status = 500
        /\ lastUpdate.status = 400
        /\ products_db[ord[a].items[1].product_id].stock >= 0
        /\ ~orders_db[b].present

\* C6 as stated: the total amount of every persisted order is the sum of
\* quantity x unit price at the prices the ledger held when the stock was
\* reserved.
C6_TotalAtReservationPrice ==
    \A o \in OrderCalls :
        orders_db[o].present => orders_db[o].total_amount = ord[o].reserved

Rank(step) ==
    CASE step = "read"    -> 1
      [] step = "delta"   -> 2
      [] step = "price"   -> 3
      [] step = "persist" -> 4
      [] step = "publish" -> 5

Count(t, step) == Cardinality({i \in 1..Len(t) : t[i] = step})

\* C8: inside one create_order call the steps run in the order: all
\* availability reads, all stock deltas, all price reads, persist, publish.
\* An order is persisted only after every one of its deltas was applied,
\* and every order_confirmation on the channel names a persisted order.
C8_FixedSequence ==
    /\ \A o \in OrderCalls :
          LET t == ord[o].trace
              n == Len(ord[o].items)
          IN  /\ \A i, j \in 1..Len(t) : i < j => Rank(t[i]) <= Rank(t[j])
              /\ Count(t, "delta") > 0 => Count(t, "read") = n
              /\ Count(t, "price") > 0 => Count(t, "delta") = n
              /\ Count(t, "persist") > 0 => Count(t, "price") = n
              /\ Count(t, "publish") > 0 => Count(t, "persist") = 1
              /\ orders_db[o].present =>
                    /\ Count(t, "persist") = 1
                    /\ Len(ord[o].applied) = n
                    /\ \A i \in 1..n : ord[o].applied[i] = DeltaOf(o, i)
    /\ \A i \in 1..Len(channel) :
          channel[i].type = "order_confirmation" => orders_db[channel[i].order_id].present

\* A call with two line items ran to the end and its confirmation is on
\* the channel.
C8_Witness ==
    \E o \in OrderCalls :
        /\ ord[o].trace = <<"read", "read", "delta", "delta", "price", "price",
                            "persist", "publish">>
        /\ orders_db[o].present
        /\ Confirmations(o) # {}

\* C9: when the publish of the order_confirmation fails, create_order still
\* answers 200 with the persisted order; the order stays in orders_db with
\* status confirmed and all its stock deltas stay applied.
C9_ConfirmationFailureSwallowed ==
    \A o \in OrderCalls :
        ord[o].confirmation = "failed" =>
            /\ ord[o].pc = "done"
            /\ ord[o].status = 200
            /\ orders_db[o].present
            /\ orders_db[o].status = "confirmed"
            /\ ord[o].body = orders_db[o]
            /\ Len(ord[o].applied) = Len(ord[o].items)
            /\ Confirmations(o) = {}

\* The publish failed for an order of one item: order kept, stock deducted.
C9_Witness ==
    \E o \in OrderCalls :
        /\ ord[o].confirmation = "failed"
        /\ ord[o].status = 200
        /\ orders_db[o].present
        /\ Len(ord[o].items) = 1
        /\ ord[o].items[1].quantity > 0
        /\ products_db[ord[o].items[1].product_id].stock =
              Catalog[ord[o].items[1].product_id].stock - ord[o].items[1].quantity

Persisted(o) == orders_db[o].present

\* C11: a request error on any availability read, stock delta or price read
\* of create_order ends the call with 503, never with 400, and the order is
\* neither persisted nor confirmed.
C11_RequestErrorIs503 ==
    \A o \in OrderCalls :
        /\ ord[o].neterr =>
              /\ ord[o].pc = "done"
              /\ ord[o].status = 503
              /\ ord[o].failedIn \in {"check", "update", "price"}
              /\ ~Persisted(o)
              /\ ord[o].confirmation = "none"
              /\ Confirmations(o) = {}
        /\ ord[o].status = 400 => ~ord[o].neterr

\* The price read failed with a request error after a delta was applied.
C11_Witness ==
    \E o \in OrderCalls :
        /\ ord[o].neterr
        /\ ord[o].failedIn = "price"
        /\ Len(ord[o].applied) = 1
        /\ ord[o].status = 503
        /\ ~Persisted(o)

\* C12 as stated: every persisted order has at least one line item and
\* every line item has a quantity > 0.
C12_PositiveItems ==
    \A o \in OrderCalls :
        Persisted(o) =>
            /\ Len(orders_db[o].items) > 0
            /\ \A i \in 1..Len(orders_db[o].items) : orders_db[o].items[i].quantity > 0

\* C13 as stated: every persisted order has a total amount >= 0.
C13_TotalNonNegative ==
    \A o \in OrderCalls : Persisted(o) => orders_db[o].total_amount >= 0

\* C14 as stated: every product of the ledger has stock >= 0.
C14_StockNonNegative ==
    \A p \in ProductIds : products_db[p].present => products_db[p].stock >= 0

\* ----------------------------------------------------- notification list
\* The identifier of the i-th stored entry.
IdAt(list, i) == json_loads(list[i]).value.notification_id

StoredIds(list) == {IdAt(list, i) : i \in 1..Len(list)}

\* A DELETE /notifications/{id} call was answered.
Deleted == lastDelete.status # 0

Without(list, i) == SubSeq(list, 1, i - 1) \o SubSeq(list, i + 1, Len(list))

\* C15 as stated: deleting by an id that no stored notification has is
\* answered 404 and leaves the notification list as it was.
C15_UnknownIdNotFound ==
    (Deleted /\ lastDelete.notification_id \notin StoredIds(lastDelete.before)) =>
        /\ lastDelete.status = 404
        /\ lastDelete.after = lastDelete.before

\* C16: deleting by an id that is stored is answered 200 with the first
\* stored entry that has the id, removes that entry and no other, and keeps
\* the other entries in their order.
C16_DeleteRemovesFirstMatch ==
    (Deleted /\ lastDelete.notification_id \in StoredIds(lastDelete.before)) =>
        LET before == lastDelete.before
            i == CHOOSE k \in 1..Len(before) :
                     /\ IdAt(before, k) = lastDelete.notification_id
                     /\ \A j \in 1..(k - 1) : IdAt(before, j) # lastDelete.notification_id
        IN  /\ lastDelete.status = 200
            /\ lastDelete.body = json_loads(before[i]).value
            /\ lastDelete.after = Without(before, i)
            /\ Len(lastDelete.after) = Len(before) - 1

\* The middle one of three stored notifications was deleted.
C16_Witness ==
    /\ Deleted
    /\ Len(lastDelete.before) = 3
    /\ IdAt(lastDelete.before, 2) = lastDelete.notification_id
    /\ lastDelete.status = 200
    /\ notifications_db = <<lastDelete.before[1], lastDelete.before[3]>>

\* ------------------------------------------------------------- dispatcher
\* The rx-th message the listener took could not be decoded as JSON.
Undecodable(rx) == ~json_loads(dispatched[rx].text).ok

\* The rx-th message the listener took is a JSON dict with a type tag.
WellFormed(rx) ==
    /\ json_loads(dispatched[rx].text).ok
    /\ "type" \in DOMAIN json_loads(dispatched[rx].text).value

\* The notifications stored for the rx-th message.
StoredFor(rx) == {e \in persisted : e.rx = rx /\ e.push # <<>>}

\* C17: a message that is no JSON is dropped: no thread is started for it
\* and nothing is stored for it.  The listener loop goes on: it is still
\* subscribed after every message it took, and every well-formed message
\* it took, before or after a dropped one, was handed to a thread.
\* Publishing is over when the message is delivered, so nothing the
\* listener does reaches the publisher.
C17_UndecodableDropped ==
    /\ dispatched # <<>> => subscribed
    /\ \A rx \in 1..Len(dispatched) :
          /\ Undecodable(rx) =>
                /\ dispatched[rx].outcome = "dropped"
                /\ \A w \in workers : w.rx # rx
                /\ \A e \in persisted : e.rx # rx
          /\ WellFormed(rx) => dispatched[rx].outcome = "spawned"

\* A stock alert received after an undecodable message was stored.
C17_Witness ==
    \E i, j \in 1..Len(dispatched) :
        /\ i < j
        /\ Undecodable(i)
        /\ WellFormed(j)
        /\ dispatched[j].src # 0
        /\ StoredFor(j) # {}
        /\ Len(notifications_db) = 1

KnownTags == {"order_confirmation", "low_stock_alert", "out_of_stock_alert"}

AlertTags == {"low_stock_alert", "out_of_stock_alert"}

\* The message has what its rendering reads with a format that can fail.
Renderable(data) ==
    data.type = "order_confirmation" =>
        {"total_amount", "user_id"} \subseteq DOMAIN data

\* C18: what a thread stores for a decoded message is determined by the
\* type tag: at most one notification, of the type of the tag, with status
\* sent, for the message's user id when the tag is order_confirmation and
\* for the admin address when it is a stock alert; exactly one when the tag
\* is one of the three and neither rendering nor storing fails; none for
\* any other tag, and none for a dict without a type field.
C18_TagDetermines ==
    /\ \A e \in persisted :
          /\ Len(e.push) <= 1
          /\ e.data.type \notin KnownTags => e.push = <<>>
          /\ (e.data.type \in KnownTags /\ Renderable(e.data) /\ e.storeOk)
                => Len(e.push) = 1
          /\ \A i \in 1..Len(e.push) :
                LET n == json_loads(e.push[i]).value
                IN  /\ n.type = e.data.type
                    /\ n.type \in KnownTags
                    /\ n.status = "sent"
                    /\ n.type = "order_confirmation" => n.recipient = e.data.user_id
                    /\ n.type \in AlertTags => n.recipient = ADMIN_RECIPIENT
    /\ \A rx \in 1..Len(dispatched) :
          (~Undecodable(rx) /\ ~WellFormed(rx)) =>
              /\ \A w \in workers : w.rx # rx
              /\ \A e \in persisted : e.rx # rx
    /\ \A i \in 1..Len(notifications_db) :
          json_loads(notifications_db[i]).value.status = "sent"

\* An order confirmation and a stock alert were stored, and a message with
\* an unknown tag was handed to a thread that stored nothing.
C18_Witness ==
    /\ \E e \in persisted :
          /\ e.data.type = "order_confirmation"
          /\ Len(e.push) = 1
          /\ json_loads(e.push[1]).value.recipient = "u1"
    /\ \E e \in persisted :
          /\ e.data.type \in AlertTags
          /\ e.src # 0
          /\ Len(e.push) = 1
    /\ \E e \in persisted : e.data.type = "promo" /\ e.push = <<>>

\* ------------------------------------------------------- rendered texts
Digits == {DigitChars[i] : i \in 1..Len(DigitChars)}

IsDigits(seq) == seq # <<>> /\ \A i \in 1..Len(seq) : seq[i] \in Digits

DigitValue(ch) == CHOOSE d \in 0..9 : DigitChars[d + 1] = ch

\* The number a reader of the text reads off a run of digits.
RECURSIVE ParseNat(_)
ParseNat(digits) ==
    IF digits = <<>> THEN 0
    ELSE ParseNat(SubSeq(digits, 1, Len(digits) - 1)) * 10
             + DigitValue(digits[Len(digits)])

\* The pieces of a low stock text between "Only" and "units remaining".
StockPieces(text) == SubSeq(text, 6, Len(text) - 1)

\* The stored low stock notifications that came from a message of the
\* inventory service.
LowStockStored ==
    {e \in persisted : e.src # 0 /\ e.data.type = "low_stock_alert" /\ e.push # <<>>}

\* C19: the text of a notification stored for a low_stock_alert message
\* names the product id, the product name and the remaining stock of that
\* message, the stock as the decimal number and nothing else; and the
\* message update_stock publishes carries the stock it has just committed,
\* the previous stock plus the delta.
C19_LowStockRoundTrip ==
    /\ \A e \in LowStockStored :
          LET text == json_loads(e.push[1]).value.message
              m == channel[e.src]
          IN  /\ e.data = m
              /\ text[1] = "Low stock alert: "
              /\ text[2] = m.product_name
              /\ text[4] = m.product_id
              /\ IsDigits(StockPieces(text))
              /\ ParseNat(StockPieces(text)) = m.current_stock
              /\ (Len(StockPieces(text)) > 1 => StockPieces(text)[1] # "0")
              /\ text[Len(text)] = " units remaining"
    /\ \A i \in 1..Len(lastUpdate.sent) :
          lastUpdate.sent[i].type = "low_stock_alert" =>
              /\ channel[Len(channel)] = lastUpdate.sent[i]
              /\ lastUpdate.sent[i].product_id = lastUpdate.product_id
              /\ lastUpdate.sent[i].product_name = Catalog[lastUpdate.product_id].name
              /\ lastUpdate.sent[i].current_stock = lastUpdate.stock
              /\ lastUpdate.stock = lastUpdate.prev_stock + lastUpdate.quantity

\* The alert of the last delta, which left 10 units, was stored, and the
\* ledger still holds the 10 units its text names.
C19_Witness ==
    \E e \in LowStockStored :
        /\ e.src = Len(channel)
        /\ lastUpdate.sent = <<channel[e.src]>>
        /\ lastUpdate.quantity < 0
        /\ products_db[lastUpdate.product_id].stock = 10
        /\ StockPieces(json_loads(e.push[1]).value.message) = <<"1", "0">>

\* ---------------------------------------------------------------- channel
\* The channel messages that some part of the notification service holds
\* or has handled.
Received ==
    {inbox[i].src : i \in 1..Len(inbox)}
        \cup {dispatched[i].src : i \in 1..Len(dispatched)}
        \cup {w.src : w \in workers}
        \cup {e.src : e \in persisted}

\* C20: a message published while the listener was not subscribed never
\* reaches the notification service, before or after it subscribes: it is
\* in no inbox, was taken by no listener turn, has no thread and no stored
\* notification.  The stock delta that published it was answered 200 and
\* its stock is in the ledger.
C20_NotDurable ==
    /\ lost \cap Received = {}
    /\ (lastUpdate.sent # <<>> /\ Len(channel) \in lost) =>
          /\ lastUpdate.status = 200
          /\ products_db[lastUpdate.product_id].stock = lastUpdate.stock
          /\ lastUpdate.stock = lastUpdate.prev_stock + lastUpdate.quantity

\* An alert was lost before the startup; the alert after it was stored, and
\* the service has nothing left to handle.
C20_Witness ==
    /\ subscribed
    /\ inbox = <<>>
    /\ workers = {}
    /\ \E l \in lost : \E e \in persisted :
          /\ e.src > l
          /\ e.push # <<>>
          /\ Len(notifications_db) = 1

\* ------------------------------------------------- order to notification
\* Where a piece stands in a text (0: nowhere).
IndexOf(text, piece) ==
    IF \E k \in 1..Len(text) : text[k] = piece
        THEN CHOOSE k \in 1..Len(text) : text[k] = piece
        ELSE 0

\* The pieces of an order confirmation text after the "$".
AmountPieces(text) ==
    SubSeq(text, IndexOf(text, " confirmed! Total: $") + 1, Len(text))

\* The amount in cents a reader reads off "[-]d+.dd".
ParseAmount(pieces) ==
    LET neg   == pieces # <<>> /\ pieces[1] = "-"
        body  == IF neg THEN Tail(pieces) ELSE pieces
        dot   == IndexOf(body, ".")
        whole == SubSeq(body, 1, dot - 1)
        frac  == SubSeq(body, dot + 1, Len(body))
        cents == ParseNat(whole) * 100 + ParseNat(frac)
    IN  IF neg THEN 0 - cents ELSE cents

WellFormedAmount(pieces) ==
    LET body == IF pieces # <<>> /\ pieces[1] = "-" THEN Tail(pieces) ELSE pieces
        dot  == IndexOf(body, ".")
    IN  /\ dot > 1
        /\ Len(body) = dot + 2
        /\ IsDigits(SubSeq(body, 1, dot - 1))
        /\ IsDigits(SubSeq(body, dot + 1, Len(body)))

\* The finished threads of the confirmation of order call o.
ConfirmationThreads(o) == {e \in persisted : e.src \in Confirmations(o)}

\* create_order call o returned the order, its confirmation was published
\* and the listener was subscribed then.
ConfirmedAndDelivered(o) ==
    /\ ord[o].pc = "done"
    /\ ord[o].status = 200
    /\ ord[o].confirmation = "sent"
    /\ Confirmations(o) \cap lost = {}

\* One notification is stored for order call o: an order_confirmation for
\* the order's user whose text names the order's total amount.
OneConfirmationStored(o) ==
    \E e \in ConfirmationThreads(o) :
        /\ Len(e.push) = 1
        /\ Cardinality({i \in 1..Len(notifications_db) :
                            notifications_db[i] = e.push[1]}) = 1
        /\ LET n == json_loads(e.push[1]).value
           IN  /\ n.type = "order_confirmation"
               /\ n.status = "sent"
               /\ n.recipient = orders_db[o].user_id
               /\ WellFormedAmount(AmountPieces(n.message))
               /\ ParseAmount(AmountPieces(n.message)) = orders_db[o].total_amount

\* The thread of the confirmation of order call o has finished, and unless
\* storing failed in it, the one notification is stored.
ConfirmationHandled(o) ==
    /\ ConfirmationThreads(o) # {}
    /\ (\A e \in ConfirmationThreads(o) : e.storeOk) => OneConfirmationStored(o)

\* C21: with the listener and the threads scheduled fairly, every
\* create_order call that returned the order and whose confirmation was
\* published while the listener was subscribed is followed by the end of
\* the thread of that confirmation, which, unless storing failed, has
\* stored one order_confirmation notification for the order's user with
\* the order's total amount in its text; and there is never more than one
\* thread per confirmation.
C21_ConfirmationEventuallyStored ==
    /\ \A o \in OrderCalls : ConfirmedAndDelivered(o) ~> ConfirmationHandled(o)
    /\ [](\A o \in OrderCalls : Cardinality(ConfirmationThreads(o)) <= 1)

\* The confirmation of an order of two laptops is stored with 1999.98.
C21_Witness ==
    \E o \in OrderCalls :
        /\ ConfirmedAndDelivered(o)
        /\ OneConfirmationStored(o)
        /\ orders_db[o].total_amount = 199998
        /\ \E e \in ConfirmationThreads(o) :
              AmountPieces(json_loads(e.push[1]).value.message)
                  = <<"1", "9", "9", "9", ".", "9", "8">>

\* ------------------------------------------------------ order of storing
\* The turns of the listener that started a thread.
Spawned == {rx \in 1..Len(dispatched) : dispatched[rx].outcome = "spawned"}

\* Where the notification of the rx-th message stands in the list (0: not
\* in the list).
PlaceOf(rx) ==
    IF \E e \in StoredFor(rx), i \in 1..Len(notifications_db) :
           notifications_db[i] = e.push[1]
        THEN CHOOSE i \in 1..Len(notifications_db) :
                 \E e \in StoredFor(rx) : notifications_db[i] = e.push[1]
        ELSE 0

\* C22: the listener takes the messages of the services in the order of
\* the channel, and every message it hands on has a thread of its own,
\* running or finished, whatever the other threads do.  (That the threads
\* may finish in the other order is what the witness shows.)
C22_ReceptionInChannelOrder ==
    /\ \A i, j \in 1..Len(dispatched) :
          (i < j /\ dispatched[i].src # 0 /\ dispatched[j].src # 0)
              => dispatched[i].src < dispatched[j].src
    /\ \A rx \in Spawned :
          Cardinality({w \in workers : w.rx = rx})
              + Cardinality({e \in persisted : e.rx = rx}) = 1
    /\ \A w \in workers : w.rx \in Spawned
    /\ \A e \in persisted : e.rx \in Spawned

\* Two alerts were received as m1, m2; the notification of m2 was stored
\* first, so the one of m1 is at the head of the list.
C22_Witness ==
    \E m1, m2 \in Spawned :
        /\ m1 < m2
        /\ dispatched[m1].src # 0
        /\ dispatched[m1].src < dispatched[m2].src
        /\ PlaceOf(m1) = 1
        /\ PlaceOf(m2) = 2

\* ------------------------------------------------- failures in a thread
\* Rendering or storing failed in the finished thread e.
FailedThread(e) == ~Renderable(e.data) \/ ~e.storeOk

\* What a failed thread leaves behind.
FailureContained ==
    /\ \A e \in persisted : FailedThread(e) => e.push = <<>>
    /\ dispatched # <<>> => subscribed

\* What the step of a thread changes: it leaves the ledger, the orders,
\* the answers of the calls, the listener and the other threads alone, and
\* a failed one leaves the list alone too.
ThreadStepFrame ==
    persisted' # persisted =>
        /\ UNCHANGED <<products_db, orders_db, ord, sreq, lastUpdate, channel,
                       subscribed, inbox, dispatched>>
        /\ workers' \subseteq workers
        /\ Cardinality(workers') = Cardinality(workers) - 1
        /\ persisted \subseteq persisted'
        /\ \A e \in persisted' \ persisted :
              /\ \A w \in workers' : w.rx # e.rx
              /\ FailedThread(e) => notifications_db' = notifications_db

\* C23: a thread in which rendering fails (an order_confirmation without
\* total_amount) or storing fails stores no notification for its message;
\* the listener stays subscribed and the other threads stay as they are;
\* the stock, the orders and the answers of the calls that published the
\* messages do not change.
C23_ThreadFailureContained == [](FailureContained) /\ [][ThreadStepFrame]_vars

\* An order_confirmation without total_amount and an alert whose lpush
\* failed stored nothing; the alert received after them was stored, and
\* both stock calls were answered 200.
C23_Witness ==
    \E e1, e2, e3 \in persisted :
        /\ ~Renderable(e1.data)
        /\ e2.src # 0 /\ ~e2.storeOk
        /\ e3.rx > e1.rx /\ e3.rx > e2.rx /\ e3.push # <<>>
        /\ notifications_db = e3.push
        /\ \A c \in StockCalls : sreq[c].status = 200

\* ------------------------------------------------------------ identifiers
TypeAt(list, i) == json_loads(list[i]).value.type

\* C24: no two stored notifications have the same identifier, whether
\* they were created by message threads or by the test endpoint, in any
\* interleaving of them.
C24_UniqueIds ==
    \A i, j \in 1..Len(notifications_db) :
        IdAt(notifications_db, i) = IdAt(notifications_db, j) => i = j

\* Two alerts of the same type and a test notification are stored, the
\* test notification between the two alerts.
C24_Witness ==
    /\ Len(notifications_db) = 3
    /\ TypeAt(notifications_db, 2) = "test"
    /\ TypeAt(notifications_db, 1) = TypeAt(notifications_db, 3)
    /\ TypeAt(notifications_db, 1) \in AlertTags

\* ---------------------------------------------------------------- listing
RECURSIVE SumOver(_, _)
SumOver(f, S) ==
    IF S = {} THEN 0
    ELSE LET x == CHOOSE y \in S : TRUE IN f[x] + SumOver(f, S \ {x})

NotificationTypes == KnownTags \cup {"test"}

\* Where a listed notification stands in the list.
PlaceIn(list, n) == CHOOSE i \in 1..Len(list) : json_loads(list[i]).value = n

\* Identifiers are drawn in the order in which the notifications are
\* stored, so a greater identifier is a later store.
ListedMostRecentFirst ==
    LET listed == get_notifications(notifications_db)
    IN  /\ Len(listed) = Len(notifications_db)
        /\ \A i, j \in 1..Len(listed) :
              i < j => listed[i].notification_id > listed[j].notification_id

FilterKeepsOrder ==
    \A t \in NotificationTypes :
        LET f == get_notifications_by_type(notifications_db, t)
        IN  /\ \A i \in 1..Len(f) : f[i].type = t
            /\ Len(f) = Cardinality({i \in 1..Len(notifications_db) :
                                        TypeAt(notifications_db, i) = t})
            /\ \A i, j \in 1..Len(f) :
                  i < j => PlaceIn(notifications_db, f[i]) < PlaceIn(notifications_db, f[j])

StatsAgree ==
    LET st == get_notification_stats(notifications_db)
    IN  /\ st.total_notifications = Len(notifications_db)
        /\ st.last_notification =
              IF notifications_db = <<>> THEN <<>>
              ELSE <<json_loads(Head(notifications_db)).value>>
        /\ SumOver(st.notifications_by_type, DOMAIN st.notifications_by_type)
              = st.total_notifications
        /\ \A t \in DOMAIN st.notifications_by_type :
              st.notifications_by_type[t]
                  = Len(get_notifications_by_type(notifications_db, t))

\* A step that stores a notification puts it at the head of the list and
\* leaves the rest as it was.
StoreIsPrepend ==
    Len(notifications_db') > Len(notifications_db) =>
        /\ Len(notifications_db') = Len(notifications_db) + 1
        /\ Tail(notifications_db') = notifications_db

\* C25: storing prepends, so the listing gives the notifications most
\* recent first; the listing by type keeps that order; the stats give the
\* head of the list as last notification, the length of the list as
\* total, and counts by type that sum to the total.
C25_MostRecentFirst ==
    /\ [](ListedMostRecentFirst /\ FilterKeepsOrder /\ StatsAgree)
    /\ [][StoreIsPrepend]_vars

\* Three notifications of two types are stored; the listing by type of the
\* first and third skips the second.
C25_Witness ==
    /\ Len(notifications_db) = 3
    /\ TypeAt(notifications_db, 1) = TypeAt(notifications_db, 3)
    /\ TypeAt(notifications_db, 2) # TypeAt(notifications_db, 1)
    /\ Len(get_notifications_by_type(notifications_db, TypeAt(notifications_db, 1))) = 2
    /\ get_notification_stats(notifications_db).last_notification
          = <<json_loads(notifications_db[1]).value>>
    /\ IdAt(notifications_db, 1) > IdAt(notifications_db, 3)

\* ------------------------------------------------------------ order table
AllConfirmed ==
    \A o \in OrderCalls : Persisted(o) => orders_db[o].status = "confirmed"

\* A stored order is the same in the next state.
OrdersKept ==
    \A o \in OrderCalls : Persisted(o) => orders_db'[o] = orders_db[o]

\* C26: every order of the order table has status confirmed, and a stored
\* order is never changed or removed: user, items, total amount and status
\* stay as they were stored.
C26_OrdersImmutable == [](AllConfirmed) /\ [][OrdersKept]_vars

\* Both calls stored their order, the second after the first had returned
\* it, and the table still holds what the first call returned.
C26_Witness ==
    \E a, b \in OrderCalls :
        /\ a # b
        /\ ord[a].pc = "done" /\ ord[a].status = 200
        /\ ord[b].pc = "done" /\ ord[b].status = 200
        /\ ord[b].trace = <<"persist", "publish">>
        /\ Len(ord[a].items) = 2
        /\ orders_db[a] = ord[a].body
        /\ orders_db[b] = ord[b].body

\* ---------------------------------------------------------------- retries
\* The requests call o has sent of one kind.
Sent(o, step) == Count(ord[o].trace, step)

NoSecondAttempt ==
    \A o \in OrderCalls :
        /\ Sent(o, "delta") = ord[o].puts
        /\ Sent(o, "read") <= Len(ord[o].items)
        /\ Sent(o, "price") <= Len(ord[o].items)
        /\ ord[o].puts <= Len(ord[o].items)
        /\ ord[o].pc = "update" => ord[o].puts = ord[o].idx - 1
        /\ ord[o].failedIn = "update" => ord[o].puts = ord[o].idx
        /\ ord[o].failedIn # "" =>
              /\ ord[o].pc = "done"
              /\ ord[o].status \in {400, 500, 503}
              /\ ~Persisted(o)

\* A call that has ended sends nothing more.
EndedStaysEnded ==
    \A o \in OrderCalls : ord[o].pc = "done" => ord'[o] = ord[o]

\* C27: a create_order call sends one PUT per line item at most, and one
\* availability read and one price read per line item at most; a call
\* that failed, on an error answer or on a request error, has ended and
\* sends nothing more.
C27_NoRetry == [](NoSecondAttempt) /\ [][EndedStaysEnded]_vars

\* The PUT of the second line item was lost on the way: one PUT per item
\* was sent, the call ended with 503, the first delta stays applied.
C27_Witness ==
    \E o \in OrderCalls :
        /\ ord[o].neterr
        /\ ord[o].failedIn = "update"
        /\ ord[o].idx = 2
        /\ ord[o].puts = 2
        /\ Len(ord[o].applied) = 1
        /\ ord[o].status = 503

\* -------------------------------------------------- failures and deltas
\* C28 as stated: a create_order call that ended with 400 has applied no
\* stock delta.
C28_ClientErrorAppliesNothing ==
    \A o \in OrderCalls : ord[o].status = 400 => ord[o].applied = <<>>

\* Call o ran with no other call beside it and no request error.
Alone(o) ==
    /\ \A x \in OrderCalls : x # o => ord[x].pc = "idle"
    /\ extCalls = 0
    /\ ~ord[o].neterr

\* C29 as stated: a create_order call that ran alone, without a dependency
\* failure, and whose availability reads all passed, applies the delta of
\* every line item and stores the order.
C29_PassedCheckCompletes ==
    \A o \in OrderCalls :
        (Alone(o) /\ ord[o].pc = "done" /\ AllPassed(o)) =>
            /\ ord[o].status = 200
            /\ Persisted(o)
            /\ Len(ord[o].applied) = Len(ord[o].items)

\* C30 as stated: every delta a create_order call has applied is <= 0.
C30_NeverIncreasesStock ==
    \A o \in OrderCalls :
        \A i \in 1..Len(ord[o].applied) : ord[o].applied[i].quantity <= 0

\* --------------------------------------------------------------- counting
\* The finished threads that stored a notification.
StoredThreads == {e \in persisted : e.push # <<>>}

\* The deltas the ledger committed for create_order calls with a stock of
\* at most the threshold after the delta.
RECURSIVE LowDeltas(_)
LowDeltas(S) ==
    IF S = {} THEN 0
    ELSE LET o == CHOOSE x \in S : TRUE
         IN  ord[o].lowDeltas + LowDeltas(S \ {o})

\* C31: a channel message has one thread at most and a thread stores one
\* notification at most; so the order_confirmation notifications ever
\* stored are at most as many as the stored orders, and the low stock and
\* out of stock notifications ever stored at most as many as the
\* committed deltas that left a stock of 10 or less.
C31_AtMostOncePerMessage ==
    /\ \A e \in persisted : Len(e.push) <= 1
    /\ \A i \in 1..Len(channel) :
          Cardinality({e \in persisted : e.src = i}) <= 1
    /\ \A e \in persisted : e.src \in 1..Len(channel) /\ e.data = channel[e.src]
    /\ Cardinality({e \in StoredThreads : e.data.type = "order_confirmation"})
          <= Cardinality({o \in OrderCalls : Persisted(o)})
    /\ Cardinality({e \in StoredThreads : e.data.type \in AlertTags})
          <= LowDeltas(OrderCalls)

\* One order of the last notebook: its delta left stock 0; the out of
\* stock notification and the order confirmation are both stored.
C31_Witness ==
    /\ Cardinality({o \in OrderCalls : Persisted(o)}) = 1
    /\ LowDeltas(OrderCalls) = 1
    /\ Cardinality({e \in StoredThreads : e.data.type = "order_confirmation"}) = 1
    /\ Cardinality({e \in StoredThreads : e.data.type = "out_of_stock_alert"}) = 1
    /\ Len(notifications_db) = 2
    /\ workers = {}

====
